---- MODULE Spec2Model ----
(***************************************************************************)
(* Model of python/xls2json.py: the two row mappers (map_data and          *)
(* map_formatted_data), the template helpers they are built from, and      *)
(* main/save_json, which write the mapped records to the output file.      *)
(*                                                                         *)
(* Python values are tagged records of one shape, [t, s, n]:               *)
(*   t = "str"   a str, text in s                                          *)
(*   t = "int"   an int, value in n                                        *)
(*   t = "time"  a datetime.time cell, its ISO text in s                   *)
(*   t = "dt"    a datetime.datetime, clock reading in n                   *)
(*   t = "none"  None (an empty cell)                                      *)
(* A dict is the sequence of its [k, v] items in insertion order.          *)
(***************************************************************************)
EXTENDS Integers, Sequences, FiniteSets, TLC

VARIABLES
    worksheet,       \* workbook[sheet]: [present, header, rows]
    format_file,     \* TRUE: a format file was given (template mode)
    mapping_format,  \* the template loaded from the format file
    mapping_labels,  \* the list of labels of the label-list mode
    unique_key,      \* [k, i, label]: None, an int or a label
    clock,           \* what datetime.datetime.now() returns
    pc,              \* position of main
    result,          \* outcome of the row mapper, see Outcome
    file             \* the output file: [state, data]

vars == <<worksheet, format_file, mapping_format, mapping_labels, unique_key,
          clock, pc, result, file>>

----------------------------------------------------------------------------
(* Values *)

Str(x) == [t |-> "str", s |-> x, n |-> 0]
Int_(i) == [t |-> "int", s |-> "", n |-> i]
Time(x) == [t |-> "time", s |-> x, n |-> 0]
DateTime(i) == [t |-> "dt", s |-> "", n |-> i]
None == [t |-> "none", s |-> "", n |-> 0]

KeyNone == [k |-> "none", i |-> 0, label |-> ""]
KeyInt(j) == [k |-> "int", i |-> j, label |-> ""]
KeyLabel(l) == [k |-> "label", i |-> 0, label |-> l]

\* the value a unique key is compared with in `cell.value == label`
KeyValue(uk) == IF uk.k = "label" THEN Str(uk.label) ELSE None

----------------------------------------------------------------------------
(* dict: insertion-ordered, assignment to a present key keeps its place *)

Keys(d) == {d[j].k : j \in 1..Len(d)}

Pos(d, key) == CHOOSE j \in 1..Len(d) : d[j].k = key

Get(d, key) == d[Pos(d, key)].v

\* a dict that keeps the first value assigned to a key
DictSetKeepFirst(d, key, val) ==
    IF key \in Keys(d) THEN d ELSE Append(d, [k |-> key, v |-> val])

DictSet(d, key, val) ==
    IF key \in Keys(d)
    THEN [d EXCEPT ![Pos(d, key)] = [k |-> key, v |-> val]]
    ELSE Append(d, [k |-> key, v |-> val])

Values(d) == [j \in 1..Len(d) |-> d[j].v]

\* d.update(items), item by item
RECURSIVE Update(_, _)
Update(d, items) ==
    IF items = <<>> THEN d
    ELSE Update(DictSet(d, Head(items).k, Head(items).v), Tail(items))

\* dict(ChainMap(first, second)): the keys of second, then the new keys of
\* first; a key of both maps takes its value from first
ChainMapSecondWins(first, second) == Update(first, second)

ChainMapDict(first, second) == Update(second, first)

\* row[index] of a Python tuple, negative indexes included
InRange(row, index) == index >= -Len(row) /\ index < Len(row)

Item(row, index) == IF index >= 0 THEN row[index + 1] ELSE row[Len(row) + index + 1]

----------------------------------------------------------------------------
(* Templates *)
(* A format string is the sequence of its segments: literal text, or a     *)
(* replacement field {name} / {name:spec}.  A mapping is the sequence of   *)
(* its entries [key, leaf, segs, sub] in key order.                        *)

Lit(x) == [ph |-> FALSE, text |-> x, spec |-> ""]
Field(name) == [ph |-> TRUE, text |-> name, spec |-> ""]
FieldSpec(name, spec) == [ph |-> TRUE, text |-> name, spec |-> spec]

Leaf(key, segs) == [key |-> key, leaf |-> TRUE, segs |-> segs, sub |-> <<>>]
Node(key, sub) == [key |-> key, leaf |-> FALSE, segs |-> <<>>, sub |-> sub]

\* an entry of a mapped record
OutLeaf(key, val) == [key |-> key, leaf |-> TRUE, val |-> val, sub |-> <<>>]
OutNode(key, sub) == [key |-> key, leaf |-> FALSE, val |-> None, sub |-> sub]

\* re.match(r"{(\w*)(:.*)?}", label): anchored at the first character, so
\* it matches only a string that begins with a replacement field, and
\* group(1) is that field's name; on no match, match is None and
\* match.group raises AttributeError
clean_label(label) ==
    IF label # <<>> /\ Head(label).ph
    THEN [err |-> "", label |-> Head(label).text]
    ELSE [err |-> "AttributeError", label |-> ""]

\* labels.append / labels.extend over mapping.values(), depth first; the
\* first clean_label that raises ends the walk
RECURSIVE extract_labels(_)
extract_labels(mapping) ==
    IF mapping = <<>> THEN [err |-> "", labels |-> <<>>]
    ELSE LET v == Head(mapping)
             first == IF v.leaf
                      THEN LET c == clean_label(v.segs)
                           IN  [err |-> c.err,
                                labels |-> IF c.err = "" THEN <<c.label>> ELSE <<>>]
                      ELSE extract_labels(v.sub)
         IN  IF first.err # "" THEN [err |-> first.err, labels |-> <<>>]
             ELSE LET rest == extract_labels(Tail(mapping))
                  IN  IF rest.err # "" THEN rest
                      ELSE [err |-> "", labels |-> first.labels \o rest.labels]

\* format(value, spec) for the specs used here: "" (str(value)) and "02d"
Pad2(i) == IF i >= 0 /\ i < 10 THEN "0" \o ToString(i) ELSE ToString(i)

FormatValue(v, spec) ==
    IF spec = ""
    THEN [err |-> "",
          s |-> CASE v.t = "str" -> v.s
                  [] v.t = "int" -> ToString(v.n)
                  [] v.t = "time" -> v.s
                  [] v.t = "dt" -> "2020-01-01 00:00:0" \o ToString(v.n)
                  [] OTHER -> "None"]
    ELSE CASE v.t = "int" -> [err |-> "", s |-> Pad2(v.n)]
           [] v.t = "str" -> [err |-> "ValueError", s |-> ""]
           [] v.t = "none" -> [err |-> "TypeError", s |-> ""]
           [] OTHER -> [err |-> "", s |-> spec]   \* strftime(spec), no directive

\* mf.format(**row) of one format string: the fields are replaced left to
\* right; a name that is no key of row raises KeyError(name)
RECURSIVE FormatString(_, _)
FormatString(segs, row) ==
    IF segs = <<>> THEN [err |-> "", name |-> "", s |-> ""]
    ELSE LET g == Head(segs)
             head == IF ~g.ph THEN [err |-> "", name |-> "", s |-> g.text]
                     ELSE IF g.text \notin Keys(row)
                          THEN [err |-> "KeyError", name |-> g.text, s |-> ""]
                          ELSE LET f == FormatValue(Get(row, g.text), g.spec)
                               IN  [err |-> f.err, name |-> g.text, s |-> f.s]
         IN  IF head.err # "" THEN head
             ELSE LET rest == FormatString(Tail(segs), row)
                  IN  IF rest.err # "" THEN rest
                      ELSE [err |-> "", name |-> "", s |-> head.s \o rest.s]

\* _map_formatted(row, mf) for a mapping mf: a mapping of the same keys
RECURSIVE map_formatted(_, _)
map_formatted(row, mf) ==
    IF mf = <<>> THEN [err |-> "", name |-> "", rec |-> <<>>]
    ELSE LET e == Head(mf)
             first == IF e.leaf
                      THEN LET f == FormatString(e.segs, row)
                           IN  [err |-> f.err, name |-> f.name,
                                rec |-> <<OutLeaf(e.key, Str(f.s))>>]
                      ELSE LET m == map_formatted(row, e.sub)
                           IN  [err |-> m.err, name |-> m.name,
                                rec |-> <<OutNode(e.key, m.rec)>>]
         IN  IF first.err # "" THEN [err |-> first.err, name |-> first.name, rec |-> <<>>]
             ELSE LET rest == map_formatted(row, Tail(mf))
                  IN  IF rest.err # "" THEN rest
                      ELSE [err |-> "", name |-> "", rec |-> first.rec \o rest.rec]

----------------------------------------------------------------------------
(* The worksheet *)

\* workbook[sheet].rows: the header row, then the data rows
Rows(ws) == <<ws.header>> \o ws.rows

\* islice(enumerate(workbook[sheet].rows), 1, None): the rows after the
\* header, each with its index in the whole sheet
DataRowsFromZero(ws) == [j \in 1..Len(ws.rows) |-> [i |-> j - 1, row |-> Rows(ws)[j + 1]]]

DataRows(ws) == [j \in 1..Len(ws.rows) |-> [i |-> j, row |-> Rows(ws)[j + 1]]]

\* outcome of a row mapper: err = "" and the list it returns, or the
\* exception it raises, the step that raised it, the name the exception
\* carries, and how far the pass over the data rows had come
Outcome(err, stage, name, rows_read, contexts, data) ==
    [err |-> err, stage |-> stage, name |-> name, rows_read |-> rows_read,
     contexts |-> contexts, data |-> data, key_index |-> 0]

\* the same, once unique_key_index is bound
WithKeyIndex(outcome, index) == [outcome EXCEPT !.key_index = index]

NoOutcome == Outcome("", "", "", 0, <<>>, <<>>)

----------------------------------------------------------------------------
(* map_formatted_data *)

InList(x, list) == \E j \in 1..Len(list) : list[j] = x

\* {h.value: i for i, h in enumerate(header) if h.value in mapped_labels}
RECURSIVE LabelIndexesFrom(_, _, _, _)
LabelIndexesFrom(header, mapped_labels, i, d) ==
    IF i >= Len(header) THEN d
    ELSE LET h == header[i + 1]
         IN  LabelIndexesFrom(header, mapped_labels, i + 1,
                 IF h.t = "str" /\ InList(h.s, mapped_labels)
                 THEN DictSet(d, h.s, i) ELSE d)

label_indexes(header, mapped_labels) == LabelIndexesFrom(header, mapped_labels, 0, <<>>)

\* unique_key if type(unique_key) is int else label_indexes.get(unique_key, 0)
unique_key_index_or_first(uk, indexes) ==
    IF uk.k = "int" THEN [err |-> "", index |-> uk.i]
    ELSE IF uk.k = "label" /\ uk.label \in Keys(indexes)
         THEN [err |-> "", index |-> Get(indexes, uk.label)]
         ELSE [err |-> "", index |-> 0]

\* unique_key if type(unique_key) is int else label_indexes[unique_key]
unique_key_index(uk, indexes) ==
    IF uk.k = "int" THEN [err |-> "", index |-> uk.i]
    ELSE IF uk.k = "label" /\ uk.label \in Keys(indexes)
         THEN [err |-> "", index |-> Get(indexes, uk.label)]
         ELSE [err |-> "KeyError", index |-> 0]

\* {label: row[index].value for label, index in label_indexes.items()}
dict_row(row, indexes) ==
    [j \in 1..Len(indexes) |-> [k |-> indexes[j].k, v |-> Item(row, indexes[j].v)]]

\* dict(ChainMap({"_row_number": row_number, "_now": _now}, dict_row))
RowContext(row_number, now, drow) ==
    ChainMapDict(<<[k |-> "_row_number", v |-> Int_(row_number)],
                   [k |-> "_now", v |-> now]>>, drow)

\* the dict comprehension of the return statement, one data row at a time:
\* the key expression first, then map_formatted_row
RECURSIVE MapFormattedRows(_, _, _, _, _, _, _)
MapFormattedRows(todo, mf, indexes, uki, now, acc, done) ==
    IF todo = <<>> THEN Outcome("", "", "", done.read, done.contexts, Values(acc))
    ELSE LET r == Head(todo)
             read == done.read + 1
         IN  IF ~InRange(r.row, uki)
             THEN Outcome("IndexError", "rows", "", read, done.contexts, <<>>)
             ELSE LET ctx == RowContext(r.i, now, dict_row(r.row, indexes))
                      m == map_formatted(ctx, mf)
                      ctxs == Append(done.contexts, ctx)
                  IN  IF m.err # ""
                      THEN Outcome(m.err, "rows", m.name, read, ctxs, <<>>)
                      ELSE MapFormattedRows(Tail(todo), mf, indexes, uki, now,
                               DictSet(acc, Item(r.row, uki), m.rec),
                               [read |-> read, contexts |-> ctxs])

map_formatted_data(ws, mf, uk, now) ==
    LET ex == extract_labels(mf)
    IN  IF ex.err # "" THEN Outcome(ex.err, "extract_labels", "", 0, <<>>, <<>>)
        ELSE IF ~ws.present THEN Outcome("KeyError", "sheet", "", 0, <<>>, <<>>)
        ELSE LET indexes == label_indexes(ws.header, ex.labels)
                 uki == unique_key_index(uk, indexes)
             IN  IF uki.err # ""
                 THEN Outcome(uki.err, "unique_key", uk.label, 0, <<>>, <<>>)
                 ELSE WithKeyIndex(
                          MapFormattedRows(DataRows(ws), mf, indexes, uki.index, now,
                              <<>>, [read |-> 0, contexts |-> <<>>]),
                          uki.index)

----------------------------------------------------------------------------
(* map_data *)

\* next(i for i, cell in enumerate(row) if cell.value == label)
Matches(row, label) == {j \in 1..Len(row) : row[j] = label}

find_column_index(row, label) ==
    IF Matches(row, label) = {} THEN [err |-> "StopIteration", index |-> 0]
    ELSE [err |-> "",
          index |-> (CHOOSE j \in Matches(row, label) :
                        \A m \in Matches(row, label) : j <= m) - 1]

\* cell.value, a datetime.datetime as text
value(cell) ==
    IF cell.t = "dt" THEN Str("2020-01-01T00:00:0" \o ToString(cell.n) \o ".000Z")
    ELSE cell

\* {v: value(row[i]) for i, v in enumerate(mapping_labels)}
RECURSIVE MapRowFrom(_, _, _, _)
MapRowFrom(row, labels, i, d) ==
    IF i >= Len(labels) THEN [err |-> "", rec |-> d]
    ELSE IF ~InRange(row, i) THEN [err |-> "IndexError", rec |-> <<>>]
    ELSE MapRowFrom(row, labels, i + 1,
             IF labels[i + 1] \in {d[j].key : j \in 1..Len(d)}
             THEN [j \in 1..Len(d) |->
                      IF d[j].key = labels[i + 1]
                      THEN OutLeaf(labels[i + 1], value(Item(row, i))) ELSE d[j]]
             ELSE Append(d, OutLeaf(labels[i + 1], value(Item(row, i)))))

map_row(row, labels) == MapRowFrom(row, labels, 0, <<>>)

RECURSIVE MapDataRows(_, _, _, _, _)
MapDataRows(todo, labels, uki, acc, read) ==
    IF todo = <<>> THEN Outcome("", "", "", read, <<>>, Values(acc))
    ELSE LET r == Head(todo)
         IN  IF ~InRange(r.row, uki)
             THEN Outcome("IndexError", "rows", "", read + 1, <<>>, <<>>)
             ELSE LET m == map_row(r.row, labels)
                  IN  IF m.err # ""
                      THEN Outcome(m.err, "rows", "", read + 1, <<>>, <<>>)
                      ELSE MapDataRows(Tail(todo), labels, uki,
                               DictSet(acc, Item(r.row, uki), m.rec), read + 1)

map_data(ws, labels, uk) ==
    LET uki == IF uk.k = "int" THEN [err |-> "", index |-> uk.i]
               ELSE IF ~ws.present THEN [err |-> "KeyError", index |-> 0]
               ELSE find_column_index(ws.header, KeyValue(uk))
    IN  IF uki.err # ""
        THEN Outcome(uki.err, IF uki.err = "KeyError" THEN "sheet" ELSE "unique_key",
                     uk.label, 0, <<>>, <<>>)
        ELSE IF ~ws.present
             THEN WithKeyIndex(Outcome("KeyError", "sheet", "", 0, <<>>, <<>>), uki.index)
        ELSE WithKeyIndex(MapDataRows(DataRows(ws), labels, uki.index, <<>>, 0),
                          uki.index)

----------------------------------------------------------------------------
(* main and save_json *)

\* json.dumps(data) raises TypeError on a value that is no str, number,
\* None, list or dict; of the cell values here, a datetime.time
RECURSIVE Serializable(_)
Serializable(rec) ==
    \A j \in 1..Len(rec) :
        IF rec[j].leaf THEN rec[j].val.t \in {"str", "int", "none"}
        ELSE Serializable(rec[j].sub)

Dumps(data) == \A j \in 1..Len(data) : Serializable(data[j])

OldFile == [state |-> "old", data |-> <<>>]

----------------------------------------------------------------------------
(* Inputs *)

MaxRows == 3

\* the cell values a column holds: the first column text, the second text
\* or a time of day
TextCells == {Str("u"), Str("v")}

Cells == TextCells \cup {Time("12:00:00")}

Headers ==
    { <<Str("a"), Str("b")>>,
      <<Str("a"), Str("a")>>,
      <<Str("_row_number"), Str("a")>>,
      <<Str("a"), Str("_now")>>,
      <<Str("b"), None>> }

DataRowPool == { <<x, y>> : x \in TextCells, y \in Cells }

SheetsOver(header) ==
    UNION { [1..n -> {r \in DataRowPool : Len(r) = Len(header)}] : n \in 0..MaxRows }

NoSheet == [present |-> FALSE, header |-> <<>>, rows |-> <<>>]

Worksheets ==
    {NoSheet} \cup
    UNION { { [present |-> TRUE, header |-> h, rows |-> rs] : rs \in SheetsOver(h) } :
            h \in Headers }

Templates ==
    { <<Leaf("id", <<Field("a")>>), Node("user", <<Leaf("name", <<Field("b")>>)>>)>>,
      <<Leaf("row", <<Field("_row_number")>>), Leaf("id", <<Field("a")>>),
        Leaf("at", <<Field("_now")>>)>>,
      <<Leaf("id", <<Field("a"), Lit("-"), Field("b")>>)>>,
      <<Leaf("id", <<Lit("id-"), Field("a")>>)>>,
      <<Leaf("row", <<FieldSpec("_row_number", "02d")>>),
        Leaf("id", <<FieldSpec("a", "02d")>>)>> }

MappingLabels == { <<"a", "b">>, <<"b", "a">>, <<"a">>, <<"a", "b", "c">> }

DefaultMappingLabels == <<"a", "b">>

UniqueKeys ==
    { KeyNone, KeyInt(0), KeyInt(1), KeyInt(2), KeyInt(-1),
      KeyLabel("a"), KeyLabel("b") }

----------------------------------------------------------------------------
(* The run of main *)

Init ==
    /\ worksheet \in Worksheets
    /\ format_file \in BOOLEAN
    /\ mapping_format \in (IF format_file THEN Templates ELSE {<<>>})
    /\ mapping_labels \in (IF format_file THEN {DefaultMappingLabels} ELSE MappingLabels)
    /\ unique_key \in UniqueKeys
    /\ clock = 1
    /\ pc = "start"
    /\ result = NoOutcome
    /\ file = OldFile

\* main, format_file is None: data = map_data(...)
MapData ==
    /\ pc = "start"
    /\ ~format_file
    /\ result' = map_data(worksheet, mapping_labels, unique_key)
    /\ pc' = IF result'.err = "" THEN "mapped" ELSE "failed"
    /\ UNCHANGED <<worksheet, format_file, mapping_format, mapping_labels,
                   unique_key, clock, file>>

\* main, a format file is given: data = map_formatted_data(...)
MapFormattedData ==
    /\ pc = "start"
    /\ format_file
    /\ result' = map_formatted_data(worksheet, mapping_format, unique_key,
                                    DateTime(clock))
    /\ pc' = IF result'.err = "" THEN "mapped" ELSE "failed"
    /\ UNCHANGED <<worksheet, format_file, mapping_format, mapping_labels,
                   unique_key, clock, file>>

\* save_json: open(file_path, "w") truncates the file
SaveOpen ==
    /\ pc = "mapped"
    /\ file' = [state |-> "empty", data |-> <<>>]
    /\ pc' = "opened"
    /\ UNCHANGED <<worksheet, format_file, mapping_format, mapping_labels,
                   unique_key, clock, result>>

\* save_json: f.write(json.dumps(data, ...)) inside the with block
SaveWrite ==
    /\ pc = "opened"
    /\ IF Dumps(result.data)
       THEN /\ file' = [state |-> "written", data |-> result.data]
            /\ pc' = "done"
            /\ UNCHANGED result
       ELSE /\ result' = [result EXCEPT !.err = "TypeError", !.stage = "dumps"]
            /\ pc' = "failed"
            /\ UNCHANGED file
    /\ UNCHANGED <<worksheet, format_file, mapping_format, mapping_labels,
                   unique_key, clock>>

Next == MapData \/ MapFormattedData \/ SaveOpen \/ SaveWrite

Spec == Init /\ [][Next]_vars

----------------------------------------------------------------------------
(* Properties *)

\* the row mapper has been called / has returned its list
Called == pc # "start"
Returned == pc \in {"mapped", "opened", "done"} \/ (pc = "failed" /\ result.stage = "dumps")

NRows == Len(worksheet.rows)

ToSet(list) == {list[j] : j \in 1..Len(list)}

\* the Label Index Map of the run
Indexes == label_indexes(worksheet.header, extract_labels(mapping_format).labels)

\* what the mapper builds from the k-th data row alone: [err, rec]
RowOutcome(k) ==
    IF format_file
    THEN LET m == map_formatted(
                      RowContext(k, DateTime(clock), dict_row(worksheet.rows[k], Indexes)),
                      mapping_format)
         IN  [err |-> m.err, rec |-> m.rec]
    ELSE map_row(worksheet.rows[k], mapping_labels)

RecordOfRow(k) == RowOutcome(k).rec

\* the unique-key cell of the k-th data row
KeyOfRow(k) == Item(worksheet.rows[k], result.key_index)

\* the data rows whose key value occurs in no earlier row, in sheet order
FirstSeen == {k \in 1..NRows : \A j \in 1..(k - 1) : KeyOfRow(j) # KeyOfRow(k)}

\* the last data row with the key value of row k
LastWithKey(k) ==
    CHOOSE j \in k..NRows :
        /\ KeyOfRow(j) = KeyOfRow(k)
        /\ \A m \in (j + 1)..NRows : KeyOfRow(m) # KeyOfRow(k)

\* the p-th smallest element of a set of numbers
Nth(S, p) == CHOOSE k \in S : Cardinality({j \in S : j < k}) = p - 1

\* C1: the list a row mapper returns (map_formatted_data and map_data) holds
\* one record per distinct unique-key cell value; the records stand in the
\* order in which their key values first occur in the sheet, and each is the
\* record of the last data row that carries its key value
C1_DedupLastWinsFirstSeenOrder ==
    Returned =>
        /\ Len(result.data) = Cardinality(FirstSeen)
        /\ \A p \in 1..Len(result.data) :
               result.data[p] = RecordOfRow(LastWithKey(Nth(FirstSeen, p)))

\* keys [x, y, x] with different first and last rows, in either mode
C1_Witness ==
    /\ pc = "done"
    /\ NRows = 3
    /\ KeyOfRow(1) = KeyOfRow(3)
    /\ KeyOfRow(1) # KeyOfRow(2)
    /\ RecordOfRow(1) # RecordOfRow(3)
    /\ file.data = <<RecordOfRow(3), RecordOfRow(2)>>

----------------------------------------------------------------------------

Reserved == {"_row_number", "_now"}

\* every replacement-field name of a template, of every segment of every
\* format string
RECURSIVE PlaceholderNames(_)
PlaceholderNames(mapping) ==
    UNION { IF mapping[j].leaf
            THEN {mapping[j].segs[m].text :
                    m \in {q \in 1..Len(mapping[j].segs) : mapping[j].segs[q].ph}}
            ELSE PlaceholderNames(mapping[j].sub) : j \in 1..Len(mapping) }

HeaderLabels == {worksheet.header[j].s :
                    j \in {q \in 1..Len(worksheet.header) : worksheet.header[q].t = "str"}}

\* the labels the template needs and the header row lacks
MissingLabels == (PlaceholderNames(mapping_format) \ Reserved) \ HeaderLabels

\* every data row, taken alone, maps to a record
RowsMappable ==
    /\ format_file => extract_labels(mapping_format).err = ""
    /\ \A k \in 1..NRows : RowOutcome(k).err = ""

\* C2: with unique_key None the row mapper returns one record per data row,
\* in row order, without deduplication
C2_NoKeyNoDedup ==
    (Called /\ unique_key.k = "none" /\ worksheet.present /\ RowsMappable) =>
        /\ Returned
        /\ Len(result.data) = NRows
        /\ \A k \in 1..NRows : result.data[k] = RecordOfRow(k)

\* C3: a template that references a non-reserved name found in no header
\* cell makes the run fail with an error naming that label before any data
\* row is processed, whatever the number of data rows
C3_MissingLabelFailsFast ==
    (Called /\ format_file /\ worksheet.present /\ MissingLabels # {}) =>
        /\ result.err # ""
        /\ result.rows_read = 0
        /\ result.name \in MissingLabels

\* C4: the output file is touched only once the record list is computed and
\* serializable; a run that fails leaves the file as it was
C4_NoPartialOutput ==
    /\ file # OldFile => (Returned /\ Dumps(result.data))
    /\ pc = "failed" => file = OldFile

\* the identity template {name: "{name}" for name in labels}
IdentityTemplate(labels) == [j \in 1..Len(labels) |-> Leaf(labels[j], <<Field(labels[j])>>)]

AllText == \A k \in 1..NRows : \A j \in 1..Len(worksheet.rows[k]) :
               worksheet.rows[k][j].t = "str"

DistinctHeader == \A j, m \in 1..Len(worksheet.header) :
                      worksheet.header[j] = worksheet.header[m] => j = m

\* C5: map_data with mapping_labels L, all of them header labels, returns
\* what map_formatted_data returns for the identity template of L (stated
\* here for a header of distinct labels and a unique key given as a column
\* number of the sheet)
C5_LabelListIsIdentityTemplate ==
    (Called /\ ~format_file /\ worksheet.present /\ AllText /\ DistinctHeader
        /\ ToSet(mapping_labels) \subseteq HeaderLabels
        /\ unique_key.k = "int" /\ InRange(worksheet.header, unique_key.i)) =>
        LET t == map_formatted_data(worksheet, IdentityTemplate(mapping_labels),
                                    unique_key, DateTime(clock))
        IN  /\ t.err = ""
            /\ Returned
            /\ result.data = t.data

\* C6: extract_labels raises nothing and returns exactly the names of the
\* replacement fields of the template, those after the first of a string
\* included
C6_ExtractLabelsComplete ==
    (Called /\ format_file) =>
        /\ result.stage # "extract_labels"
        /\ extract_labels(mapping_format).err = ""
        /\ ToSet(extract_labels(mapping_format).labels) = PlaceholderNames(mapping_format)

\* C7: the k-th row context is built from the k-th data row and binds
\* _row_number to k; no context is built from the header row, and a run
\* that returns has built one context per data row
C7_RowNumbering ==
    (Called /\ format_file) =>
        /\ Len(result.contexts) <= NRows
        /\ Returned => Len(result.contexts) = NRows
        /\ \A k \in 1..Len(result.contexts) :
               /\ Get(result.contexts[k], "_row_number") = Int_(k)
               /\ \A l \in Keys(Indexes) \ Reserved :
                      Get(result.contexts[k], l) = Item(worksheet.rows[k], Get(Indexes, l))

C7_Witness ==
    /\ pc = "done"
    /\ format_file
    /\ "_row_number" \in PlaceholderNames(mapping_format)
    /\ Len(result.contexts) = 3
    /\ Get(result.contexts[3], "_row_number") = Int_(3)
    /\ file.data[1][1] = OutLeaf("row", Str("1"))

\* C8: every row context binds _row_number to the row's ordinal and _now to
\* the one timestamp of the run, also when the header row has cells named
\* "_row_number" or "_now" and the template references these names
C8_ReservedNotShadowed ==
    (Called /\ format_file) =>
        \A k \in 1..Len(result.contexts) :
            /\ Get(result.contexts[k], "_now") = DateTime(clock)
            /\ Get(result.contexts[k], "_row_number").t = "int"
            /\ Get(result.contexts[k], "_row_number").n = k

C8_Witness ==
    /\ pc = "done"
    /\ format_file
    /\ Reserved \cap Keys(Indexes) # {}
    /\ Reserved \subseteq PlaceholderNames(mapping_format)
    /\ Len(result.contexts) >= 2
    /\ Get(result.contexts[1], "_now") = Get(result.contexts[2], "_now")

\* C9: map_formatted_data with a unique key that is a label and no key of
\* the Label Index Map raises KeyError when it resolves the key: no data
\* row is read, no context built, no record returned, the file untouched
C9_UnknownKeyRejectedEagerly ==
    (Called /\ format_file /\ unique_key.k = "label"
        /\ unique_key.label \notin Keys(Indexes)) =>
        /\ pc = "failed"
        /\ result.rows_read = 0
        /\ result.contexts = <<>>
        /\ result.data = <<>>
        /\ file = OldFile
        /\ (extract_labels(mapping_format).err = "" /\ worksheet.present) =>
               (result.err = "KeyError" /\ result.stage = "unique_key"
                   /\ result.name = unique_key.label)

\* the key is a header label that no replacement field references
C9_Witness ==
    /\ pc = "failed"
    /\ format_file
    /\ result.stage = "unique_key"
    /\ unique_key.k = "label"
    /\ unique_key.label \in HeaderLabels
    /\ unique_key.label \notin PlaceholderNames(mapping_format)
    /\ NRows > 0

\* the index of the last header cell equal to a label
LastMatch(label) ==
    CHOOSE j \in 0..(Len(worksheet.header) - 1) :
        /\ worksheet.header[j + 1] = Str(label)
        /\ \A m \in (j + 1)..(Len(worksheet.header) - 1) :
               worksheet.header[m + 1] # Str(label)

\* C10: in both modes a unique key given as a label resolves to the last
\* header cell equal to it, and so does every label of the Label Index Map
C10_LastMatchWins ==
    /\ (Called /\ format_file) =>
           \A l \in Keys(Indexes) : Get(Indexes, l) = LastMatch(l)
    /\ (Returned /\ unique_key.k = "label") =>
           result.key_index = LastMatch(unique_key.label)

====
